---- MODULE Spec2Model ----
(***************************************************************************)
(* Model of the RFC 6962 Merkle proof engine of src/merkle_proof.py:       *)
(* verify_inclusion / root_from_inclusion_proof and verify_consistency,    *)
(* executed statement block by statement block on caller-supplied inputs,  *)
(* and of inclusion() and consistency() of src/main.py, which fetch their   *)
(* inputs from the log server and call the proof engine (variable main).   *)
(*                                                                         *)
(* Byte strings are sequences of chunks.  A chunk is <<"b", n>> (one       *)
(* literal byte n), <<"e", i>> (the decoded body of log entry i) or        *)
(* <<"d", input>> (the 32 bytes of the SHA-256 digest of the byte string   *)
(* input).  Digests are therefore free terms: two digests are equal iff    *)
(* their inputs are equal byte strings (an ideal, collision-free hash).    *)
(*                                                                         *)
(* Hex strings are sequences of tokens.  <<"x", c>> is the lower-case hex  *)
(* text of chunk c, <<"X", c>> its upper-case hex text, <<"nib", 0>> a     *)
(* single hex digit with no partner (odd length) and <<"bad", 0>> a        *)
(* character that is no hex digit.                                         *)
(***************************************************************************)
EXTENDS Integers, Sequences, FiniteSets, TLC

VARIABLES pc, fn, args, loc, hashCalls, stdout, outcome, main

vars == <<pc, fn, args, loc, hashCalls, stdout, outcome, main>>

(***************************************************************************)
(* Bounds of the model.                                                    *)
(***************************************************************************)
\* largest tree size of the reference tree
MaxSize == 16
\* longest proof made of arbitrary digests
MaxJunkProof == 4
\* arbitrary proofs are tried with sizes 0..MaxCoord and indices -MaxNeg..MaxCoord
MaxCoord == 4
MaxNeg == 3

(***************************************************************************)
(* Program constants.                                                      *)
(***************************************************************************)
RFC6962_LEAF_HASH_PREFIX == 0
RFC6962_NODE_HASH_PREFIX == 1
\* hashlib.sha256().digest_size
HashSize == 32

(***************************************************************************)
(* Python integers: unbounded two's complement.                            *)
(***************************************************************************)
Abs(n) == IF n < 0 THEN -n ELSE n

RECURSIVE Pow2(_)
Pow2(n) == IF n <= 0 THEN 1 ELSE 2 * Pow2(n - 1)

\* int.bit_length(): number of bits of abs(n)
RECURSIVE BitLength(_)
BitLength(n) == IF n = 0 THEN 0 ELSE 1 + BitLength(Abs(n) \div 2)

\* bin(n).count("1"): bin() prints the sign and the bits of abs(n)
RECURSIVE BinCountOnes(_)
BinCountOnes(n) ==
    IF n = 0 THEN 0 ELSE (Abs(n) % 2) + BinCountOnes(Abs(n) \div 2)

\* n >> k for k >= 0: floor division by 2^k
ShiftRight(n, k) == n \div Pow2(k)

\* a ^ b
RECURSIVE Xor(_, _)
Xor(a, b) ==
    IF a = 0 THEN b
    ELSE IF b = 0 THEN a
    ELSE IF a = -1 THEN -1 - b
    ELSE IF b = -1 THEN -1 - a
    ELSE 2 * Xor(a \div 2, b \div 2) + (((a % 2) + (b % 2)) % 2)

\* a & b
RECURSIVE BitAnd(_, _)
BitAnd(a, b) ==
    IF a = 0 \/ b = 0 THEN 0
    ELSE IF a = -1 THEN b
    ELSE IF b = -1 THEN a
    ELSE 2 * BitAnd(a \div 2, b \div 2) + ((a % 2) * (b % 2))

\* s[:n] and s[n:] of a Python list
ClipIndex(s, n) ==
    IF n < 0 THEN (IF Len(s) + n < 0 THEN 0 ELSE Len(s) + n)
    ELSE (IF n > Len(s) THEN Len(s) ELSE n)

SliceTo(s, n) == SubSeq(s, 1, ClipIndex(s, n))

SliceFrom(s, n) == SubSeq(s, ClipIndex(s, n) + 1, Len(s))

(***************************************************************************)
(* Bytes, digests and hex text.                                            *)
(***************************************************************************)
B(n) == <<"b", n>>

ChunkLen(c) == IF c[1] = "d" THEN HashSize ELSE 1

RECURSIVE ByteLen(_)
ByteLen(bs) == IF bs = <<>> THEN 0 ELSE ChunkLen(Head(bs)) + ByteLen(Tail(bs))

\* hashlib.sha256(data).digest()
Sha256(data) == << <<"d", data>> >>

\* bytes.fromhex(s) raises ValueError
FromHexFails(s) == \E i \in 1..Len(s) : s[i][1] \notin {"x", "X"}

\* bytes.fromhex(s) when it does not raise
FromHex(s) == [i \in 1..Len(s) |-> s[i][2]]

\* binascii.hexlify(b), bytes.hex()
Hexlify(bs) == [i \in 1..Len(bs) |-> <<"x", bs[i]>>]

(***************************************************************************)
(* Hasher                                                                  *)
(***************************************************************************)
empty_root == Sha256(<<>>)

hash_leaf(leaf) == Sha256(<<B(RFC6962_LEAF_HASH_PREFIX)>> \o leaf)

hash_children(left, right) ==
    Sha256(<<B(RFC6962_NODE_HASH_PREFIX)>> \o left \o right)

hasher_size == HashSize

(***************************************************************************)
(* Pure helpers of the proof engine.                                       *)
(***************************************************************************)
\* inner_proof_size that compares index with size instead of size - 1
inner_proof_size_off_by_one(index, size) == BitLength(Xor(index, size))

inner_proof_size(index, size) == BitLength(Xor(index, size - 1))

decomp_incl_proof(index, size) ==
    LET inner == inner_proof_size(index, size)
        border == BinCountOnes(ShiftRight(index, inner))
    IN  <<inner, border>>

\* verify_match that never raises
verify_match_never(calculated, expected) == FALSE

\* raises RootMismatchError(expected, calculated)
verify_match(calculated, expected) == calculated # expected

\* chain_inner that ignores the bit of index and always hashes (seed, h)
chain_inner_step_left_only(seed, h, index, i) == hash_children(seed, h)

\* one iteration of chain_inner: element h at position i (0-based)
chain_inner_step(seed, h, index, i) ==
    IF (ShiftRight(index, i) % 2) = 0
    THEN hash_children(seed, h)
    ELSE hash_children(h, seed)

\* does iteration i of chain_inner_right hash?
chain_inner_right_hashes(index, i) == (ShiftRight(index, i) % 2) = 1

\* chain_inner_right that hashes on the 0 bits of index instead of the 1 bits
chain_inner_right_step_flipped(seed, h, index, i) ==
    IF chain_inner_right_hashes(index, i) THEN seed ELSE hash_children(h, seed)

\* one iteration of chain_inner_right
chain_inner_right_step(seed, h, index, i) ==
    IF chain_inner_right_hashes(index, i) THEN hash_children(h, seed) ELSE seed

\* one iteration of chain_border_right
chain_border_right_step(seed, h) == hash_children(h, seed)

RECURSIVE ChainInnerFrom(_, _, _, _)
ChainInnerFrom(seed, proof, index, i) ==
    IF i >= Len(proof) THEN seed
    ELSE ChainInnerFrom(chain_inner_step(seed, proof[i + 1], index, i),
                        proof, index, i + 1)

chain_inner(seed, proof, index) == ChainInnerFrom(seed, proof, index, 0)

RECURSIVE ChainInnerRightFrom(_, _, _, _)
ChainInnerRightFrom(seed, proof, index, i) ==
    IF i >= Len(proof) THEN seed
    ELSE ChainInnerRightFrom(chain_inner_right_step(seed, proof[i + 1], index, i),
                             proof, index, i + 1)

chain_inner_right(seed, proof, index) == ChainInnerRightFrom(seed, proof, index, 0)

RECURSIVE chain_border_right(_, _)
chain_border_right(seed, proof) ==
    IF proof = <<>> THEN seed
    ELSE chain_border_right(chain_border_right_step(seed, Head(proof)), Tail(proof))

(***************************************************************************)
(* Reference Merkle tree of RFC 6962, section 2.1, over the log entries    *)
(* 0, 1, 2, ...: the honest log that produces roots and proofs.            *)
(* D[lo:hi] is the list of entries lo .. hi-1.                             *)
(***************************************************************************)
Entry(i) == << <<"e", i>> >>

RefLeaf(i) == Sha256(<<B(0)>> \o Entry(i))

RefNode(l, r) == Sha256(<<B(1)>> \o l \o r)

\* largest power of two smaller than n (n > 1)
RECURSIVE SplitBelow(_, _)
SplitBelow(n, k) == IF 2 * k < n THEN SplitBelow(n, 2 * k) ELSE k

\* MTH(D[lo:hi])
RECURSIVE MTH(_, _)
MTH(lo, hi) ==
    IF hi - lo <= 0 THEN Sha256(<<>>)
    ELSE IF hi - lo = 1 THEN RefLeaf(lo)
    ELSE LET k == SplitBelow(hi - lo, 1)
         IN  RefNode(MTH(lo, lo + k), MTH(lo + k, hi))

\* PATH(m, D[lo:hi]), m relative to lo
RECURSIVE RefPath(_, _, _)
RefPath(m, lo, hi) ==
    IF hi - lo <= 1 THEN <<>>
    ELSE LET k == SplitBelow(hi - lo, 1)
         IN  IF m < k
             THEN Append(RefPath(m, lo, lo + k), MTH(lo + k, hi))
             ELSE Append(RefPath(m - k, lo + k, hi), MTH(lo, lo + k))

\* SUBPROOF(m, D[lo:hi], b), m relative to lo
RECURSIVE RefSubProof(_, _, _, _)
RefSubProof(m, lo, hi, b) ==
    IF m = hi - lo THEN (IF b THEN <<>> ELSE <<MTH(lo, hi)>>)
    ELSE LET k == SplitBelow(hi - lo, 1)
         IN  IF m <= k
             THEN Append(RefSubProof(m, lo, lo + k, b), MTH(lo + k, hi))
             ELSE Append(RefSubProof(m - k, lo + k, hi, FALSE), MTH(lo, lo + k))

\* PROOF(m, D[n]); empty when there is nothing to prove (m = 0 or m = n)
RefProof(m, n) == IF m = 0 \/ m >= n THEN <<>> ELSE RefSubProof(m, 0, n, TRUE)

(***************************************************************************)
(* Inputs of the calls.                                                    *)
(***************************************************************************)
JunkA == Sha256(<<B(170)>>)
JunkB == Sha256(<<B(187)>>)
ShortBytes == <<B(7)>>

HexList(ds) == [k \in 1..Len(ds) |-> Hexlify(ds[k])]

HexUpper(bs) == [i \in 1..Len(bs) |-> <<"X", bs[i]>>]

OddHex(h) == Append(h, <<"nib", 0>>)

NonHex(h) == Append(h, <<"bad", 0>>)

Repeat(x, n) == [k \in 1..n |-> x]

SwapFirstTwo(s) ==
    IF Len(s) < 2 THEN s ELSE <<s[2], s[1]>> \o SubSeq(s, 3, Len(s))

HonestInclusion(index, size) ==
    [index |-> index, size |-> size,
     leaf_hash |-> Hexlify(RefLeaf(index)),
     proof |-> HexList(RefPath(index, 0, size)),
     root |-> Hexlify(MTH(0, size))]

InclusionTampers(c) ==
    {c,
     [c EXCEPT !.leaf_hash = Hexlify(JunkA)],
     [c EXCEPT !.root = Hexlify(JunkA)],
     [c EXCEPT !.proof = SubSeq(c.proof, 1, Len(c.proof) - 1)],
     [c EXCEPT !.proof = Append(c.proof, Hexlify(JunkA))],
     [c EXCEPT !.proof = SwapFirstTwo(c.proof)],
     [c EXCEPT !.leaf_hash = Hexlify(ShortBytes)],
     [c EXCEPT !.leaf_hash = OddHex(c.leaf_hash)],
     [c EXCEPT !.root = OddHex(c.root)],
     [c EXCEPT !.root = NonHex(c.root)],
     [c EXCEPT !.root = HexUpper(FromHex(c.root))],
     [c EXCEPT !.proof = Append(c.proof, OddHex(Hexlify(JunkA)))]}
    \cup {[c EXCEPT !.proof[k] = Hexlify(JunkA)] : k \in 1..Len(c.proof)}

\* the root the chaining algorithm derives from a leaf and a proof
ChainedRoot(index, size, leaf, proof) ==
    LET inner == decomp_incl_proof(index, size)[1]
    IN  chain_border_right(chain_inner(leaf, SliceTo(proof, inner), index),
                           SliceFrom(proof, inner))

\* any coordinate, valid or not, with a proof of any length and the root that
\* chaining this proof from the leaf hash gives
ArbitraryInclusion ==
    {[index |-> i, size |-> n,
      leaf_hash |-> Hexlify(JunkB),
      proof |-> HexList(Repeat(JunkA, len)),
      root |-> Hexlify(ChainedRoot(i, n, JunkB, Repeat(JunkA, len)))] :
        i \in (0 - MaxNeg)..MaxCoord, n \in 0..MaxCoord, len \in 0..MaxJunkProof}

InclusionCalls ==
    UNION {InclusionTampers(HonestInclusion(q[1], q[2])) :
               q \in {r \in (0..(MaxSize - 1)) \X (1..MaxSize) : r[1] < r[2]}}
    \cup ArbitraryInclusion

HonestConsistency(size1, size2) ==
    [size1 |-> size1, size2 |-> size2,
     proof |-> HexList(RefProof(size1, size2)),
     root1 |-> Hexlify(MTH(0, size1)),
     root2 |-> Hexlify(MTH(0, size2))]

ConsistencyTampers(c) ==
    {c,
     [c EXCEPT !.root1 = Hexlify(JunkA)],
     [c EXCEPT !.root2 = Hexlify(JunkA)],
     [c EXCEPT !.proof = SubSeq(c.proof, 1, Len(c.proof) - 1)],
     [c EXCEPT !.proof = Append(c.proof, Hexlify(JunkA))],
     [c EXCEPT !.proof = SwapFirstTwo(c.proof)],
     [c EXCEPT !.size1 = c.size2, !.size2 = c.size1],
     [c EXCEPT !.root1 = OddHex(c.root1)],
     [c EXCEPT !.root2 = NonHex(c.root2)],
     [c EXCEPT !.root1 = OddHex(c.root1), !.proof = <<NonHex(Hexlify(JunkA))>>],
     [c EXCEPT !.size1 = c.size2 + 1, !.size2 = c.size1, !.root2 = OddHex(c.root2)],
     [c EXCEPT !.root1 = HexUpper(FromHex(c.root1))],
     [c EXCEPT !.proof = Append(c.proof, OddHex(Hexlify(JunkA)))]}
    \cup {[c EXCEPT !.proof[k] = Hexlify(JunkA)] : k \in 1..Len(c.proof)}

ArbitraryConsistency ==
    {[size1 |-> m, size2 |-> n,
      proof |-> HexList(Repeat(JunkA, len)),
      root1 |-> Hexlify(r1),
      root2 |-> Hexlify(JunkA)] :
        m \in 0..MaxCoord, n \in 0..MaxCoord,
        len \in 0..MaxJunkProof, r1 \in {JunkA, JunkB}}

ConsistencyCalls ==
    UNION {ConsistencyTampers(HonestConsistency(q[1], q[2])) :
               q \in {r \in (0..MaxSize) \X (0..MaxSize) : r[1] <= r[2]}}
    \cup ArbitraryConsistency

(***************************************************************************)
(* Outcomes of a call, as the caller observes them.                        *)
(***************************************************************************)
Running ==
    [kind |-> "running", exc |-> "", msg |-> "",
     expected_root |-> <<>>, calculated_root |-> <<>>]

\* the function returns (None)
Return == [Running EXCEPT !.kind = "return"]

\* the function raises ValueError(msg)
RaiseValueError(m) == [Running EXCEPT !.kind = "raise", !.exc = "ValueError", !.msg = m]

\* RootMismatchError.__init__
RootMismatchError(expected_root, calculated_root) ==
    [Running EXCEPT !.kind = "raise", !.exc = "RootMismatchError",
                    !.expected_root = Hexlify(expected_root),
                    !.calculated_root = Hexlify(calculated_root)]

\* exit(): SystemExit ends the process
Exit == [Running EXCEPT !.kind = "exit", !.exc = "SystemExit"]

NoLocals ==
    [proof |-> <<>>, root |-> <<>>, leaf |-> <<>>, root1 |-> <<>>, root2 |-> <<>>,
     inner |-> 0, border |-> 0, shift |-> 0, start |-> 0, mask |-> 0,
     seed |-> <<>>, acc |-> <<>>, i |-> 0,
     calc_root |-> <<>>, hash1 |-> <<>>, hash2 |-> <<>>]

\* a function of main.py that has not ended
MainRunning == [kind |-> "running", exc |-> "", value |-> "None"]

\* main.py is not running: the proof engine is called directly
NoMain ==
    [pc |-> "off", fn |-> "none", log_index |-> 0, artifact |-> "",
     prev_checkpoint |-> <<>>, log |-> <<>>, signature |-> <<>>, entry |-> <<>>,
     proof |-> <<>>, checkpoint |-> <<>>, hashes |-> <<>>, requests |-> <<>>,
     outcome |-> MainRunning]

Init ==
    /\ main = NoMain
    /\ pc = "idle"
    /\ fn = "none"
    /\ args = <<>>
    /\ loc = NoLocals
    /\ hashCalls = 0
    /\ stdout = <<>>
    /\ outcome = Running

\* the call ends with outcome o, having printed the lines out
Finish(o, out) ==
    /\ pc' = "done"
    /\ outcome' = o
    /\ stdout' = stdout \o out

(***************************************************************************)
(* verify_inclusion and root_from_inclusion_proof                          *)
(***************************************************************************)
CallVerifyInclusion ==
    /\ pc = "idle"
    /\ \E a \in InclusionCalls : args' = a
    /\ fn' = "verify_inclusion"
    /\ pc' = "vi_decode"
    /\ UNCHANGED <<loc, hashCalls, stdout, outcome>>
    /\ UNCHANGED main

\* root_from_inclusion_proof that chains first and checks its inputs last
root_from_inclusion_proof_then_late_check(p) ==
    CASE p = "vi_decode" -> "rfip_inner"
      [] p = "rfip_inner" -> "rfip_border"
      [] p = "rfip_border" -> "rfip_check"
      [] OTHER -> "vi_match"

\* the order of the blocks of root_from_inclusion_proof: the block that runs
\* after block p (entered from verify_inclusion once its inputs are decoded)
root_from_inclusion_proof_then(p) ==
    CASE p = "vi_decode" -> "rfip_check"
      [] p = "rfip_check" -> "rfip_inner"
      [] p = "rfip_inner" -> "rfip_border"
      [] OTHER -> "vi_match"

\* verify_inclusion, the three bytes.fromhex conversions
VI_Decode ==
    /\ pc = "vi_decode"
    /\ IF \/ \E k \in 1..Len(args.proof) : FromHexFails(args.proof[k])
          \/ FromHexFails(args.root)
          \/ FromHexFails(args.leaf_hash)
       THEN /\ Finish(RaiseValueError("fromhex"), <<>>)
            /\ UNCHANGED loc
       ELSE /\ loc' = [loc EXCEPT
                         !.proof = [k \in 1..Len(args.proof) |-> FromHex(args.proof[k])],
                         !.root = FromHex(args.root),
                         !.leaf = FromHex(args.leaf_hash)]
            /\ pc' = root_from_inclusion_proof_then(pc)
            /\ UNCHANGED <<stdout, outcome>>
    /\ UNCHANGED <<fn, args, hashCalls>>
    /\ UNCHANGED main

\* the checks of root_from_inclusion_proof: the message of the ValueError
\* they raise, or "none"
root_from_inclusion_proof_error(index, size, leaf_hash, proof) ==
    IF index >= size THEN "index is beyond size"
    ELSE IF ByteLen(leaf_hash) # hasher_size THEN "leaf_hash has unexpected size"
    ELSE LET d == decomp_incl_proof(index, size)
         IN  IF Len(proof) # d[1] + d[2] THEN "wrong proof size" ELSE "none"

RFIP_Check ==
    /\ pc = "rfip_check"
    /\ LET err == root_from_inclusion_proof_error(args.index, args.size,
                                                  loc.leaf, loc.proof)
           d == decomp_incl_proof(args.index, args.size)
       IN  IF err # "none"
           THEN /\ Finish(RaiseValueError(err), <<>>)
                /\ UNCHANGED loc
           ELSE /\ loc' = [loc EXCEPT !.inner = d[1], !.border = d[2],
                                      !.acc = loc.leaf, !.i = 0]
                /\ pc' = root_from_inclusion_proof_then(pc)
                /\ UNCHANGED <<stdout, outcome>>
    /\ UNCHANGED <<fn, args, hashCalls>>
    /\ UNCHANGED main

\* res = chain_inner(hasher, leaf_hash, proof[:inner], index), one iteration
\* of its loop at a time
RFIP_ChainInner ==
    /\ pc = "rfip_inner"
    /\ LET p == SliceTo(loc.proof, loc.inner)
       IN  IF loc.i < Len(p)
           THEN /\ loc' = [loc EXCEPT
                             !.acc = chain_inner_step(loc.acc, p[loc.i + 1],
                                                      args.index, loc.i),
                             !.i = loc.i + 1]
                /\ hashCalls' = hashCalls + 1
                /\ pc' = pc
           ELSE /\ loc' = [loc EXCEPT !.i = 0]
                /\ pc' = root_from_inclusion_proof_then(pc)
                /\ UNCHANGED hashCalls
    /\ UNCHANGED <<fn, args, stdout, outcome>>
    /\ UNCHANGED main

\* res = chain_border_right(hasher, res, proof[inner:]); return res
RFIP_ChainBorder ==
    /\ pc = "rfip_border"
    /\ LET p == SliceFrom(loc.proof, loc.inner)
       IN  IF loc.i < Len(p)
           THEN /\ loc' = [loc EXCEPT
                             !.acc = chain_border_right_step(loc.acc, p[loc.i + 1]),
                             !.i = loc.i + 1]
                /\ hashCalls' = hashCalls + 1
                /\ pc' = pc
           ELSE /\ loc' = [loc EXCEPT !.calc_root = loc.acc, !.i = 0]
                /\ pc' = root_from_inclusion_proof_then(pc)
                /\ UNCHANGED hashCalls
    /\ UNCHANGED <<fn, args, stdout, outcome>>
    /\ UNCHANGED main

\* verify_inclusion, the try/except around verify_match
VI_Match ==
    /\ pc = "vi_match"
    /\ IF verify_match(loc.calc_root, loc.root)
       THEN Finish(Exit,
                   <<"Offline root hash calculation for inclusion could not be verified">>)
       ELSE Finish(Return, <<"Offline root hash calculation for inclusion verified">>)
    /\ UNCHANGED <<fn, args, loc, hashCalls>>
    /\ UNCHANGED main

(***************************************************************************)
(* verify_consistency                                                      *)
(***************************************************************************)
CallVerifyConsistency ==
    /\ pc = "idle"
    /\ \E a \in ConsistencyCalls : args' = a
    /\ fn' = "verify_consistency"
    /\ pc' = "vc_roots"
    /\ UNCHANGED <<loc, hashCalls, stdout, outcome>>
    /\ UNCHANGED main

\* a try block that covers the conversion of root1 only
roots_invalid_first_only(root1, root2) == FromHexFails(root1)

\* the try block of verify_consistency raises ValueError
roots_invalid(root1, root2) == FromHexFails(root1) \/ FromHexFails(root2)

\* the try/except around the bytes.fromhex conversions of root1 and root2
VC_DecodeRoots ==
    /\ pc = "vc_roots"
    /\ IF roots_invalid(args.root1, args.root2)
       THEN /\ Finish(Return, <<"Invalid root(s)">>)
            /\ UNCHANGED loc
       ELSE /\ loc' = [loc EXCEPT !.root1 = FromHex(args.root1),
                                  !.root2 = FromHex(args.root2)]
            /\ pc' = "vc_proof"
            /\ UNCHANGED <<stdout, outcome>>
    /\ UNCHANGED <<fn, args, hashCalls>>
    /\ UNCHANGED main

\* bytearray_proof = [bytes.fromhex(elem) for elem in proof]
VC_DecodeProof ==
    /\ pc = "vc_proof"
    /\ IF \E k \in 1..Len(args.proof) : FromHexFails(args.proof[k])
       THEN /\ Finish(RaiseValueError("fromhex"), <<>>)
            /\ UNCHANGED loc
       ELSE /\ loc' = [loc EXCEPT
                         !.proof = [k \in 1..Len(args.proof) |-> FromHex(args.proof[k])]]
            /\ pc' = "vc_edge"
            /\ UNCHANGED <<stdout, outcome>>
    /\ UNCHANGED <<fn, args, hashCalls>>
    /\ UNCHANGED main

\* the edge cases with the size1 = 0 case tested before size1 = size2
verify_consistency_edge_zero_first(size1, size2, bytearray_proof, root1, root2) ==
    IF size2 < size1 THEN RaiseValueError("size2 < size1")
    ELSE IF size1 = 0
    THEN IF bytearray_proof # <<>>
         THEN RaiseValueError("expected empty bytearray_proof")
         ELSE Return
    ELSE IF size1 = size2
    THEN IF bytearray_proof # <<>>
         THEN RaiseValueError("size1=size2, but bytearray_proof is not empty")
         ELSE IF verify_match(root1, root2)
              THEN RootMismatchError(root2, root1)
              ELSE Return
    ELSE IF bytearray_proof = <<>>
    THEN RaiseValueError("empty bytearray_proof")
    ELSE Running

\* the edge cases with the roots of equal sizes left uncompared
verify_consistency_edge_no_match(size1, size2, bytearray_proof, root1, root2) ==
    IF size2 < size1 THEN RaiseValueError("size2 < size1")
    ELSE IF size1 = size2
    THEN IF bytearray_proof # <<>>
         THEN RaiseValueError("size1=size2, but bytearray_proof is not empty")
         ELSE Return
    ELSE IF size1 = 0
    THEN IF bytearray_proof # <<>>
         THEN RaiseValueError("expected empty bytearray_proof")
         ELSE Return
    ELSE IF bytearray_proof = <<>>
    THEN RaiseValueError("empty bytearray_proof")
    ELSE Running

\* the edge cases of verify_consistency: the outcome they end the call with,
\* or Running when the call goes on to the decomposition
verify_consistency_edge(size1, size2, bytearray_proof, root1, root2) ==
    IF size2 < size1 THEN RaiseValueError("size2 < size1")
    ELSE IF size1 = size2
    THEN IF bytearray_proof # <<>>
         THEN RaiseValueError("size1=size2, but bytearray_proof is not empty")
         ELSE IF verify_match(root1, root2)
              THEN RootMismatchError(root2, root1)
              ELSE Return
    ELSE IF size1 = 0
    THEN IF bytearray_proof # <<>>
         THEN RaiseValueError("expected empty bytearray_proof")
         ELSE Return
    ELSE IF bytearray_proof = <<>>
    THEN RaiseValueError("empty bytearray_proof")
    ELSE Running

VC_EdgeCases ==
    /\ pc = "vc_edge"
    /\ LET o == verify_consistency_edge(args.size1, args.size2, loc.proof,
                                        loc.root1, loc.root2)
       IN  IF o # Running
           THEN Finish(o, <<>>)
           ELSE /\ pc' = "vc_decomp"
                /\ UNCHANGED <<stdout, outcome>>
    /\ UNCHANGED <<fn, args, loc, hashCalls>>
    /\ UNCHANGED main

\* shift computed as the bit length of the lowest set bit, without the - 1
consistency_shift_bit_length(size1) == BitLength(BitAnd(size1, 0 - size1))

\* shift = (size1 & -size1).bit_length() - 1
consistency_shift(size1) == BitLength(BitAnd(size1, 0 - size1)) - 1

\* inner, border = decomp_incl_proof(size1 - 1, size2); inner -= shift
consistency_inner(size1, size2) ==
    decomp_incl_proof(size1 - 1, size2)[1] - consistency_shift(size1)

consistency_border(size1, size2) == decomp_incl_proof(size1 - 1, size2)[2]

\* seed, start = (root1, 0) if size1 == 1 << shift else (bytearray_proof[0], 1)
consistency_start(size1) ==
    IF size1 = Pow2(consistency_shift(size1)) THEN 0 ELSE 1

\* seed selection that always takes root1
consistency_seed_always_root1(size1, root1, bytearray_proof) == root1

consistency_seed(size1, root1, bytearray_proof) ==
    IF size1 = Pow2(consistency_shift(size1)) THEN root1 ELSE bytearray_proof[1]

\* len(bytearray_proof) != start + inner + border
consistency_wrong_size(size1, size2, bytearray_proof) ==
    Len(bytearray_proof) # consistency_start(size1)
                             + consistency_inner(size1, size2)
                             + consistency_border(size1, size2)

\* mask = (size1 - 1) >> shift
consistency_mask(size1) == ShiftRight(size1 - 1, consistency_shift(size1))

VC_Decompose ==
    /\ pc = "vc_decomp"
    /\ IF consistency_wrong_size(args.size1, args.size2, loc.proof)
       THEN /\ Finish(RaiseValueError("wrong bytearray_proof size"), <<>>)
            /\ UNCHANGED loc
       ELSE /\ loc' = [loc EXCEPT
                         !.inner = consistency_inner(args.size1, args.size2),
                         !.border = consistency_border(args.size1, args.size2),
                         !.shift = consistency_shift(args.size1),
                         !.start = consistency_start(args.size1),
                         !.seed = consistency_seed(args.size1, loc.root1, loc.proof),
                         !.proof = SliceFrom(loc.proof, consistency_start(args.size1)),
                         !.mask = consistency_mask(args.size1),
                         !.acc = consistency_seed(args.size1, loc.root1, loc.proof),
                         !.i = 0]
            /\ pc' = "vc_inner_right"
            /\ UNCHANGED <<stdout, outcome>>
    /\ UNCHANGED <<fn, args, hashCalls>>
    /\ UNCHANGED main

\* hash1 = chain_inner_right(hasher, seed, bytearray_proof[:inner], mask)
VC_ChainInnerRight ==
    /\ pc = "vc_inner_right"
    /\ LET p == SliceTo(loc.proof, loc.inner)
       IN  IF loc.i < Len(p)
           THEN /\ loc' = [loc EXCEPT
                             !.acc = chain_inner_right_step(loc.acc, p[loc.i + 1],
                                                            loc.mask, loc.i),
                             !.i = loc.i + 1]
                /\ hashCalls' = hashCalls
                                  + (IF chain_inner_right_hashes(loc.mask, loc.i)
                                     THEN 1 ELSE 0)
                /\ pc' = pc
           ELSE /\ loc' = [loc EXCEPT !.i = 0]
                /\ pc' = "vc_border1"
                /\ UNCHANGED hashCalls
    /\ UNCHANGED <<fn, args, stdout, outcome>>
    /\ UNCHANGED main

\* hash1 = chain_border_right(hasher, hash1, bytearray_proof[inner:])
VC_ChainBorder1 ==
    /\ pc = "vc_border1"
    /\ LET p == SliceFrom(loc.proof, loc.inner)
       IN  IF loc.i < Len(p)
           THEN /\ loc' = [loc EXCEPT
                             !.acc = chain_border_right_step(loc.acc, p[loc.i + 1]),
                             !.i = loc.i + 1]
                /\ hashCalls' = hashCalls + 1
                /\ pc' = pc
           ELSE /\ loc' = [loc EXCEPT !.hash1 = loc.acc, !.i = 0]
                /\ pc' = "vc_match1"
                /\ UNCHANGED hashCalls
    /\ UNCHANGED <<fn, args, stdout, outcome>>
    /\ UNCHANGED main

\* verify_match(hash1, root1), outside any try block
VC_Match1 ==
    /\ pc = "vc_match1"
    /\ IF verify_match(loc.hash1, loc.root1)
       THEN /\ Finish(RootMismatchError(loc.root1, loc.hash1), <<>>)
            /\ UNCHANGED loc
       ELSE /\ loc' = [loc EXCEPT !.acc = loc.seed, !.i = 0]
            /\ pc' = "vc_inner"
            /\ UNCHANGED <<stdout, outcome>>
    /\ UNCHANGED <<fn, args, hashCalls>>
    /\ UNCHANGED main

\* hash2 = chain_inner(hasher, seed, bytearray_proof[:inner], mask)
VC_ChainInner ==
    /\ pc = "vc_inner"
    /\ LET p == SliceTo(loc.proof, loc.inner)
       IN  IF loc.i < Len(p)
           THEN /\ loc' = [loc EXCEPT
                             !.acc = chain_inner_step(loc.acc, p[loc.i + 1],
                                                      loc.mask, loc.i),
                             !.i = loc.i + 1]
                /\ hashCalls' = hashCalls + 1
                /\ pc' = pc
           ELSE /\ loc' = [loc EXCEPT !.i = 0]
                /\ pc' = "vc_border2"
                /\ UNCHANGED hashCalls
    /\ UNCHANGED <<fn, args, stdout, outcome>>
    /\ UNCHANGED main

\* hash2 = chain_border_right(hasher, hash2, bytearray_proof[inner:])
VC_ChainBorder2 ==
    /\ pc = "vc_border2"
    /\ LET p == SliceFrom(loc.proof, loc.inner)
       IN  IF loc.i < Len(p)
           THEN /\ loc' = [loc EXCEPT
                             !.acc = chain_border_right_step(loc.acc, p[loc.i + 1]),
                             !.i = loc.i + 1]
                /\ hashCalls' = hashCalls + 1
                /\ pc' = pc
           ELSE /\ loc' = [loc EXCEPT !.hash2 = loc.acc, !.i = 0]
                /\ pc' = "vc_match2"
                /\ UNCHANGED hashCalls
    /\ UNCHANGED <<fn, args, stdout, outcome>>
    /\ UNCHANGED main

\* the try/except around verify_match(hash2, root2)
VC_Match2 ==
    /\ pc = "vc_match2"
    /\ IF verify_match(loc.hash2, loc.root2)
       THEN Finish(Exit, <<"Consistency verification failed">>)
       ELSE Finish(Return, <<"Consistency verification successful">>)
    /\ UNCHANGED <<fn, args, loc, hashCalls>>
    /\ UNCHANGED main

Next ==
    \/ CallVerifyInclusion
    \/ VI_Decode
    \/ RFIP_Check
    \/ RFIP_ChainInner
    \/ RFIP_ChainBorder
    \/ VI_Match
    \/ CallVerifyConsistency
    \/ VC_DecodeRoots
    \/ VC_DecodeProof
    \/ VC_EdgeCases
    \/ VC_Decompose
    \/ VC_ChainInnerRight
    \/ VC_ChainBorder1
    \/ VC_Match1
    \/ VC_ChainInner
    \/ VC_ChainBorder2
    \/ VC_Match2

Spec == Init /\ [][Next]_vars

(***************************************************************************)
(* src/main.py: the log server, the file system and the signature check    *)
(* that inclusion() and consistency() consume.  The server is not trusted: *)
(* every request is answered by any response of its kind, or times out.    *)
(***************************************************************************)
\* largest tree the log server reports
MaxLogSize == 3

\* base64.b64encode / base64.b64decode: text of one symbol per chunk
B64Encode(bs) == [i \in 1..Len(bs) |-> <<"b64", bs[i]>>]

B64Decode(text) == [i \in 1..Len(text) |-> text[i][2]]

\* requests.exceptions.Timeout: no response; a response r is <<r>>
Timeout == <<>>

\* the signature and the certificate recorded in log entry i
SignatureOfEntry(i) == << <<"sig", i>> >>

CertOfEntry(i) == << <<"cert", i>> >>

\* json.loads of an entry body: the hashedrekord fields inclusion() reads
json_loads(bs) ==
    [spec |-> [signature |->
        [content |-> B64Encode(SignatureOfEntry(bs[1][2])),
         publicKey |-> [content |-> B64Encode(CertOfEntry(bs[1][2]))]]]]

\* the entry at index i of a log of n entries, as the server reports it
ServedEntry(i, n, leafHash, rootHash) ==
    [body |-> B64Encode(Entry(i)),
     verification |-> [inclusionProof |->
        [logIndex |-> i, treeSize |-> n,
         hashes |-> HexList(RefPath(i, 0, n)),
         rootHash |-> rootHash, leafHash |-> leafHash]]]

\* GET /log/entries?logIndex=: any entry, with a true or a made-up leafHash
\* and root hash
EntryResponses ==
    UNION { { ServedEntry(r[1], r[2], lh, rt) :
                lh \in {Hexlify(RefLeaf(r[1])), Hexlify(JunkA)},
                rt \in {Hexlify(MTH(0, r[2])), Hexlify(JunkB)} } :
            r \in {q \in (0..(MaxLogSize - 1)) \X (1..MaxLogSize) : q[1] < q[2]} }

\* GET /log: the latest checkpoint
CheckpointResponses ==
    UNION { { [treeSize |-> n, rootHash |-> rt] :
                rt \in {Hexlify(MTH(0, n)), Hexlify(JunkB)} } :
            n \in 0..MaxLogSize }

\* GET /log/proof?firstSize=&lastSize=: the "hashes" of the response
ProofResponses(firstSize, lastSize) ==
    {HexList(RefProof(firstSize, lastSize)), <<>>, HexList(<<JunkA>>)}

\* a response of the set, or none
OrTimeout(responses) == {Timeout} \cup {<<r>> : r \in responses}

\* the files that exist, and the paths a caller passes
ExistingFiles == {"artifact.md"}

ArtifactPaths == {"artifact.md", "/non/existent/file.txt"}

\* the log indexes a caller passes
LogIndexes == (0 - 1)..(MaxLogSize - 1)

\* the checkpoints a caller passes: {} or a tree size with a root hash that
\* is the true one, has an odd number of hex digits, or is another digest
PrevCheckpoints ==
    {<<>>} \cup
    UNION { { <<[treeSize |-> m, rootHash |-> rt]>> :
                rt \in {Hexlify(MTH(0, m)), OddHex(Hexlify(MTH(0, m))),
                        Hexlify(JunkA)} } :
            m \in 0..MaxLogSize }

\* the artifact whose signature entry i records
SignedArtifact(i) == IF i % 2 = 0 THEN "artifact.md" ELSE "other.md"

\* util.extract_public_key(cert)
extract_public_key(cert) == << <<"key", cert[1][2]>> >>

\* util.verify_artifact_signature(signature, public_key, artifact_filename):
\* the lines it prints
verify_artifact_signature(signature, public_key, artifact_filename) ==
    IF /\ signature[1][2] = public_key[1][2]
       /\ SignedArtifact(signature[1][2]) = artifact_filename
    THEN <<"Signature is valid">>
    ELSE <<"Signature is invalid">>

\* sane_index(index): str(index).isdigit()
sane_index(index) == index >= 0

sane_path_not_strict(path) == FALSE

\* sane_path(path) raises FileNotFoundError: Path.resolve(strict=True)
sane_path_raises(path) == path \notin ExistingFiles

\* compute_leaf_hash(body)
compute_leaf_hash(body) ==
    Hexlify(Sha256(<<B(RFC6962_LEAF_HASH_PREFIX)>> \o B64Decode(body)))

\* get_log_body(log_index) on the response of its request: None is <<>>
get_log_body(log_index, response) ==
    IF ~sane_index(log_index) \/ response = Timeout
    THEN <<>>
    ELSE <<json_loads(B64Decode(response[1].body))>>

\* get_log_entry(log_index) on the response of its request
get_log_entry(log_index, response) ==
    IF ~sane_index(log_index) THEN <<>> ELSE response

get_verification_proof_trusting(log) == log.verification.inclusionProof

\* get_verification_proof: the entry's inclusionProof with leafHash replaced
get_verification_proof(log) ==
    [log.verification.inclusionProof EXCEPT !.leafHash = compute_leaf_hash(log.body)]

\* the outcomes of a function of main.py
MainReturn(v) == [MainRunning EXCEPT !.kind = "return", !.value = v]

MainRaise(e) == [MainRunning EXCEPT !.kind = "raise", !.exc = e]

\* an exception or exit of the proof engine passes through the caller
Propagated(o) == [MainRunning EXCEPT !.kind = o.kind, !.exc = o.exc]

InitMain ==
    /\ main = [NoMain EXCEPT !.pc = "start"]
    /\ pc = "idle"
    /\ fn = "none"
    /\ args = <<>>
    /\ loc = NoLocals
    /\ hashCalls = 0
    /\ stdout = <<>>
    /\ outcome = Running

engine == <<pc, fn, args, loc, hashCalls, stdout, outcome>>

(***************************************************************************)
(* inclusion(log_index, artifact_filepath)                                 *)
(***************************************************************************)
CallInclusion ==
    /\ main.pc = "start"
    /\ \E i \in LogIndexes, a \in ArtifactPaths :
          main' = [main EXCEPT !.pc = "inc_sane_path", !.fn = "inclusion",
                               !.log_index = i, !.artifact = a]
    /\ UNCHANGED engine

\* sane_path(artifact_filepath)
Inc_SanePath ==
    /\ main.pc = "inc_sane_path"
    /\ IF sane_path_raises(main.artifact)
       THEN main' = [main EXCEPT !.pc = "end",
                                 !.outcome = MainRaise("FileNotFoundError")]
       ELSE main' = [main EXCEPT !.pc = "inc_get_log_body"]
    /\ UNCHANGED engine

\* log = get_log_body(log_index)
Inc_GetLogBody ==
    /\ main.pc = "inc_get_log_body"
    /\ IF sane_index(main.log_index)
       THEN \E response \in OrTimeout(EntryResponses) :
               main' = [main EXCEPT
                          !.pc = "inc_signature",
                          !.requests = Append(@, "log/entries"),
                          !.log = get_log_body(main.log_index, response)]
       ELSE main' = [main EXCEPT !.pc = "inc_signature",
                                 !.log = get_log_body(main.log_index, Timeout)]
    /\ UNCHANGED engine

\* signature, cert, public_key; verify_artifact_signature(...)
Inc_VerifySignature ==
    /\ main.pc = "inc_signature"
    /\ IF main.log = <<>>
       THEN /\ main' = [main EXCEPT !.pc = "end", !.outcome = MainRaise("TypeError")]
            /\ UNCHANGED stdout
       ELSE LET log == main.log[1]
                signature == B64Decode(log.spec.signature.content)
                cert == B64Decode(log.spec.signature.publicKey.content)
                public_key == extract_public_key(cert)
            IN  /\ main' = [main EXCEPT
                              !.pc = "inc_get_proof",
                              !.signature = <<[signature |-> signature,
                                               public_key |-> public_key,
                                               artifact |-> main.artifact]>>]
                /\ stdout' = stdout \o
                     verify_artifact_signature(signature, public_key, main.artifact)
    /\ UNCHANGED <<pc, fn, args, loc, hashCalls, outcome>>

\* proof = get_verification_proof(log_index)
Inc_GetVerificationProof ==
    /\ main.pc = "inc_get_proof"
    /\ \E response \in OrTimeout(EntryResponses) :
          LET log == get_log_entry(main.log_index, response)
          IN  IF log = <<>>
              THEN main' = [main EXCEPT !.pc = "end",
                                        !.requests = Append(@, "log/entries"),
                                        !.outcome = MainRaise("TypeError")]
              ELSE main' = [main EXCEPT
                              !.pc = "inc_verify",
                              !.requests = Append(@, "log/entries"),
                              !.entry = log,
                              !.proof = <<get_verification_proof(log[1])>>]
    /\ UNCHANGED engine

\* verify_inclusion(DefaultHasher, proof["logIndex"], ...) is called
Inc_VerifyInclusion ==
    /\ main.pc = "inc_verify"
    /\ pc = "idle"
    /\ LET proof == main.proof[1]
       IN  args' = [index |-> proof.logIndex, size |-> proof.treeSize,
                    leaf_hash |-> proof.leafHash, proof |-> proof.hashes,
                    root |-> proof.rootHash]
    /\ fn' = "verify_inclusion"
    /\ pc' = "vi_decode"
    /\ main' = [main EXCEPT !.pc = "inc_wait"]
    /\ UNCHANGED <<loc, hashCalls, stdout, outcome>>

\* verify_inclusion has ended: inclusion() returns None, or the exception or
\* exit of verify_inclusion ends it
Inc_Return ==
    /\ main.pc = "inc_wait"
    /\ pc = "done"
    /\ main' = [main EXCEPT
                  !.pc = "end",
                  !.outcome = IF outcome.kind = "return"
                              THEN MainReturn("None")
                              ELSE Propagated(outcome)]
    /\ UNCHANGED engine

(***************************************************************************)
(* consistency(prev_checkpoint)                                            *)
(***************************************************************************)
CallConsistency ==
    /\ main.pc = "start"
    /\ \E c \in PrevCheckpoints :
          main' = [main EXCEPT !.pc = "con_empty", !.fn = "consistency",
                               !.prev_checkpoint = c]
    /\ UNCHANGED engine

\* if prev_checkpoint == {}: return None
Con_CheckEmpty ==
    /\ main.pc = "con_empty"
    /\ IF main.prev_checkpoint = <<>>
       THEN main' = [main EXCEPT !.pc = "end", !.outcome = MainReturn("None")]
       ELSE main' = [main EXCEPT !.pc = "con_checkpoint"]
    /\ UNCHANGED engine

\* checkpoint = get_latest_checkpoint(); root_hash, tree_size
Con_GetLatestCheckpoint ==
    /\ main.pc = "con_checkpoint"
    /\ \E checkpoint \in OrTimeout(CheckpointResponses) :
          IF checkpoint = <<>>
          THEN main' = [main EXCEPT !.pc = "end",
                                    !.requests = Append(@, "log"),
                                    !.outcome = MainRaise("TypeError")]
          ELSE main' = [main EXCEPT !.pc = "con_proof",
                                    !.requests = Append(@, "log"),
                                    !.checkpoint = checkpoint]
    /\ UNCHANGED engine

\* proof = requests.get(.../log/proof?...).json()["hashes"]
Con_GetProof ==
    /\ main.pc = "con_proof"
    /\ \E response \in OrTimeout(ProofResponses(main.prev_checkpoint[1].treeSize,
                                                main.checkpoint[1].treeSize)) :
          IF response = Timeout
          THEN /\ main' = [main EXCEPT !.pc = "end",
                                       !.requests = Append(@, "log/proof"),
                                       !.outcome = MainReturn("None")]
               /\ stdout' = Append(stdout, "Timed out")
          ELSE /\ main' = [main EXCEPT !.pc = "con_verify",
                                       !.requests = Append(@, "log/proof"),
                                       !.hashes = response]
               /\ UNCHANGED stdout
    /\ UNCHANGED <<pc, fn, args, loc, hashCalls, outcome>>

\* verify_consistency(DefaultHasher, prev_checkpoint["treeSize"], ...) is called
Con_VerifyConsistency ==
    /\ main.pc = "con_verify"
    /\ pc = "idle"
    /\ args' = [size1 |-> main.prev_checkpoint[1].treeSize,
                size2 |-> main.checkpoint[1].treeSize,
                proof |-> main.hashes[1],
                root1 |-> main.prev_checkpoint[1].rootHash,
                root2 |-> main.checkpoint[1].rootHash]
    /\ fn' = "verify_consistency"
    /\ pc' = "vc_roots"
    /\ main' = [main EXCEPT !.pc = "con_wait"]
    /\ UNCHANGED <<loc, hashCalls, stdout, outcome>>

\* verify_consistency has ended: return True whatever it returned, or its
\* exception or exit
Con_Return ==
    /\ main.pc = "con_wait"
    /\ pc = "done"
    /\ main' = [main EXCEPT
                  !.pc = "end",
                  !.outcome = IF outcome.kind = "return"
                              THEN MainReturn("True")
                              ELSE Propagated(outcome)]
    /\ UNCHANGED engine

NextMain ==
    \/ CallInclusion
    \/ Inc_SanePath
    \/ Inc_GetLogBody
    \/ Inc_VerifySignature
    \/ Inc_GetVerificationProof
    \/ Inc_VerifyInclusion
    \/ Inc_Return
    \/ CallConsistency
    \/ Con_CheckEmpty
    \/ Con_GetLatestCheckpoint
    \/ Con_GetProof
    \/ Con_VerifyConsistency
    \/ Con_Return
    \/ VI_Decode
    \/ RFIP_Check
    \/ RFIP_ChainInner
    \/ RFIP_ChainBorder
    \/ VI_Match
    \/ VC_DecodeRoots
    \/ VC_DecodeProof
    \/ VC_EdgeCases
    \/ VC_Decompose
    \/ VC_ChainInnerRight
    \/ VC_ChainBorder1
    \/ VC_Match1
    \/ VC_ChainInner
    \/ VC_ChainBorder2
    \/ VC_Match2

SpecMain == InitMain /\ [][NextMain]_vars

(***************************************************************************)
(* Vocabulary of the properties.                                           *)
(***************************************************************************)
Done == pc = "done"

InclusionVerified ==
    /\ outcome = Return
    /\ stdout = <<"Offline root hash calculation for inclusion verified">>

\* verify_consistency returns without having reported invalid roots
ConsistencySucceeded ==
    /\ outcome = Return
    /\ \A k \in 1..Len(stdout) : stdout[k] # "Invalid root(s)"

IsValueError == outcome.kind = "raise" /\ outcome.exc = "ValueError"

IsRootMismatch == outcome.kind = "raise" /\ outcome.exc = "RootMismatchError"

IsHonestInclusion ==
    /\ fn = "verify_inclusion"
    /\ args.size \in 1..MaxSize
    /\ args.index \in 0..(args.size - 1)
    /\ args = HonestInclusion(args.index, args.size)

IsHonestConsistency ==
    /\ fn = "verify_consistency"
    /\ args.size2 \in 0..MaxSize
    /\ args.size1 \in 0..args.size2
    /\ args = HonestConsistency(args.size1, args.size2)

(***************************************************************************)
(* C1.  For every tree size in 1..MaxSize and every index below it, given  *)
(* the RFC 6962 audit path of the leaf and the Merkle tree hash of the     *)
(* reference tree, root_from_inclusion_proof returns exactly that tree     *)
(* hash and verify_inclusion reports success.                              *)
(***************************************************************************)
C1_HonestInclusionVerifies ==
    IsHonestInclusion =>
        /\ pc = "vi_match" => loc.calc_root = MTH(0, args.size)
        /\ Done => /\ InclusionVerified
                   /\ loc.calc_root = MTH(0, args.size)
                   /\ (args.size = 1 => loc.calc_root = FromHex(args.leaf_hash))

C1_Witness ==
    /\ IsHonestInclusion
    /\ args.index = 4 /\ args.size = 6
    /\ Len(args.proof) = 2
    /\ Done /\ InclusionVerified

(***************************************************************************)
(* C2.  For all 0 <= size1 <= size2 <= MaxSize, given the Merkle tree      *)
(* hashes of the first size1 and the first size2 leaves of the reference   *)
(* tree and the RFC 6962 consistency proof between them (empty when        *)
(* size1 = 0 or size1 = size2), verify_consistency succeeds: it raises     *)
(* nothing, does not exit, and between distinct non-empty trees prints     *)
(* the success line.                                                       *)
(***************************************************************************)
C2_HonestConsistencyVerifies ==
    (IsHonestConsistency /\ Done) =>
        /\ ConsistencySucceeded
        /\ (0 < args.size1 /\ args.size1 < args.size2) =>
               /\ stdout = <<"Consistency verification successful">>
               /\ loc.hash1 = MTH(0, args.size1)
               /\ loc.hash2 = MTH(0, args.size2)

C2_Witness ==
    /\ IsHonestConsistency
    /\ args.size1 = 3 /\ args.size2 = 7
    /\ Done
    /\ stdout = <<"Consistency verification successful">>

(***************************************************************************)
(* C3.  Every call in which a recomputed root differs from the claimed     *)
(* root (the inclusion root, root1 or root2) ends by raising               *)
(* RootMismatchError to the caller, carrying the claimed root as expected  *)
(* and the recomputed root as calculated; it does not end as success, as   *)
(* process termination or as a shape error.                                *)
(***************************************************************************)
C3_MismatchIsRaisedToCaller ==
    Done =>
        /\ (fn = "verify_inclusion" /\ loc.calc_root # <<>>
                                    /\ loc.calc_root # loc.root)
               => outcome = RootMismatchError(loc.root, loc.calc_root)
        /\ (fn = "verify_consistency" /\ loc.hash1 # <<>>
                                      /\ loc.hash1 # loc.root1)
               => outcome = RootMismatchError(loc.root1, loc.hash1)
        /\ (fn = "verify_consistency" /\ loc.hash2 # <<>>
                                      /\ loc.hash2 # loc.root2)
               => outcome = RootMismatchError(loc.root2, loc.hash2)

(***************************************************************************)
(* C4.  For 0 < size1 < size2, verify_consistency reports success only if  *)
(* both derived hashes match: the hash chained over the 1 bits of mask     *)
(* equals root1 and the hash chained over all inner steps equals root2.    *)
(***************************************************************************)
\* the two hashes of the claim, derived from the arguments of the call
DerivedHash1 ==
    LET proof == [k \in 1..Len(args.proof) |-> FromHex(args.proof[k])]
        rest == SliceFrom(proof, consistency_start(args.size1))
        inner == consistency_inner(args.size1, args.size2)
        seed == consistency_seed(args.size1, FromHex(args.root1), proof)
    IN  chain_border_right(
            chain_inner_right(seed, SliceTo(rest, inner), consistency_mask(args.size1)),
            SliceFrom(rest, inner))

DerivedHash2 ==
    LET proof == [k \in 1..Len(args.proof) |-> FromHex(args.proof[k])]
        rest == SliceFrom(proof, consistency_start(args.size1))
        inner == consistency_inner(args.size1, args.size2)
        seed == consistency_seed(args.size1, FromHex(args.root1), proof)
    IN  chain_border_right(
            chain_inner(seed, SliceTo(rest, inner), consistency_mask(args.size1)),
            SliceFrom(rest, inner))

\* C4: success between 0 < size1 < size2 implies hash1 = root1 and hash2 = root2
C4_SuccessNeedsBothMatches ==
    (/\ fn = "verify_consistency"
     /\ 0 < args.size1 /\ args.size1 < args.size2
     /\ Done /\ ConsistencySucceeded)
        => /\ stdout = <<"Consistency verification successful">>
           /\ loc.hash1 = DerivedHash1 /\ DerivedHash1 = FromHex(args.root1)
           /\ loc.hash2 = DerivedHash2 /\ DerivedHash2 = FromHex(args.root2)

\* a success where neither hash is the seed itself: size1 = 3 is no power of two
C4_Witness ==
    /\ fn = "verify_consistency"
    /\ args.size1 = 3 /\ args.size2 = 6
    /\ Done /\ ConsistencySucceeded
    /\ hashCalls = 4
    /\ loc.hash1 = loc.root1 /\ loc.hash2 = loc.root2 /\ loc.hash1 # loc.seed

(***************************************************************************)
(* C5.  As claimed: every call of verify_consistency with size1 = 0, any   *)
(* size2 >= 0 and well-formed roots succeeds if and only if the proof is   *)
(* empty.                                                                  *)
(***************************************************************************)
C5_Original_ZeroSizeSucceedsIffEmptyProof ==
    (/\ fn = "verify_consistency"
     /\ args.size1 = 0 /\ args.size2 >= 0
     /\ ~roots_invalid(args.root1, args.root2)
     /\ Done)
        => (ConsistencySucceeded <=> args.proof = <<>>)

(***************************************************************************)
(* C5, amended.  With size1 = 0 and well-formed roots: when size2 > 0 the  *)
(* call succeeds if and only if the proof is empty; when size2 = 0 it      *)
(* succeeds if and only if the proof is empty and root1 equals root2, and  *)
(* with an empty proof and different roots it raises RootMismatchError.    *)
(***************************************************************************)
C5_ZeroSizeSucceedsIffEmptyProofAndEqualAtZero ==
    (/\ fn = "verify_consistency"
     /\ args.size1 = 0 /\ args.size2 >= 0
     /\ ~roots_invalid(args.root1, args.root2)
     /\ Done)
        => /\ ConsistencySucceeded <=>
                 /\ args.proof = <<>>
                 /\ (args.size2 = 0 => FromHex(args.root1) = FromHex(args.root2))
           /\ (/\ args.proof = <<>> /\ args.size2 = 0
               /\ FromHex(args.root1) # FromHex(args.root2))
                  => outcome = RootMismatchError(FromHex(args.root2), FromHex(args.root1))
           /\ hashCalls = 0

C5_Witness ==
    /\ fn = "verify_consistency"
    /\ args.size1 = 0 /\ args.size2 = 3
    /\ args.proof = <<>>
    /\ FromHex(args.root1) # empty_root
    /\ Done /\ ConsistencySucceeded /\ stdout = <<>>

(***************************************************************************)
(* C6.  The two roots of a call are equal byte for byte.                   *)
(***************************************************************************)
RootsEqualBytes ==
    /\ ~roots_invalid(args.root1, args.root2)
    /\ FromHex(args.root1) = FromHex(args.root2)

\* C6, as stated: every call of verify_consistency with size1 = size2 and a
\* non-empty proof yields a ValueError regardless of the roots; with an empty
\* proof it succeeds if and only if root1 equals root2 byte for byte and is a
\* root mismatch otherwise; no hash is chained in either case.
C6_Original_EqualSizes ==
    (/\ fn = "verify_consistency"
     /\ args.size1 = args.size2
     /\ Done)
        => /\ args.proof # <<>> => IsValueError
           /\ args.proof = <<>> =>
                 /\ ConsistencySucceeded <=> RootsEqualBytes
                 /\ ~ConsistencySucceeded => IsRootMismatch
           /\ hashCalls = 0

\* C6, amended: every call of verify_consistency with size1 = size2 chains
\* no hash.  When both roots are valid hex, a non-empty proof yields a
\* ValueError whatever the roots are, and an empty proof yields success if
\* and only if the bytes of root1 equal the bytes of root2, and
\* RootMismatchError otherwise.  When a root is not valid hex the call prints
\* "Invalid root(s)" and returns, whatever the proof is: neither a
\* ValueError, nor a root mismatch, nor success.
C6_EqualSizes ==
    (/\ fn = "verify_consistency"
     /\ args.size1 = args.size2
     /\ Done)
        => /\ hashCalls = 0
           /\ loc.hash1 = <<>> /\ loc.hash2 = <<>>
           /\ IF roots_invalid(args.root1, args.root2)
              THEN /\ outcome = Return
                   /\ stdout = <<"Invalid root(s)">>
                   /\ ~ConsistencySucceeded
              ELSE /\ args.proof # <<>> => IsValueError
                   /\ args.proof = <<>> =>
                         /\ ConsistencySucceeded <=> RootsEqualBytes
                         /\ ~ConsistencySucceeded =>
                                outcome = RootMismatchError(FromHex(args.root2),
                                                            FromHex(args.root1))

\* equal sizes, no proof, and roots that differ as bytes
C6_Witness ==
    /\ fn = "verify_consistency"
    /\ args.size1 = 2 /\ args.size2 = 2
    /\ args.proof = <<>>
    /\ FromHex(args.root1) # FromHex(args.root2)
    /\ Done /\ IsRootMismatch /\ hashCalls = 0

(***************************************************************************)
(* C7.  When a root given by the caller is no valid hex string, the call   *)
(* ends in an outcome that is neither a root mismatch nor success:         *)
(* verify_consistency prints "Invalid root(s)" and returns without         *)
(* checking the sizes, decoding the proof or chaining a hash, and          *)
(* verify_inclusion raises ValueError without printing that a root was     *)
(* verified or could not be verified.                                      *)
(***************************************************************************)
C7_MalformedRootIsRejected ==
    /\ (fn = "verify_consistency" /\ (FromHexFails(args.root1) \/ FromHexFails(args.root2)))
           => /\ pc \in {"vc_roots", "done"}
              /\ hashCalls = 0
              /\ loc = NoLocals
              /\ Done => /\ outcome = Return
                         /\ stdout = <<"Invalid root(s)">>
                         /\ ~ConsistencySucceeded
    /\ (fn = "verify_inclusion" /\ FromHexFails(args.root))
           => /\ pc \in {"vi_decode", "done"}
              /\ hashCalls = 0
              /\ loc = NoLocals
              /\ Done => IsValueError /\ stdout = <<>>

\* only root2 is malformed, the sizes are out of order and the proof is not empty
C7_Witness ==
    /\ fn = "verify_consistency"
    /\ ~FromHexFails(args.root1) /\ FromHexFails(args.root2)
    /\ args.size2 < args.size1
    /\ args.proof # <<>>
    /\ Done /\ stdout = <<"Invalid root(s)">>

(***************************************************************************)
(* C8.  In every call of verify_inclusion or verify_consistency that ends  *)
(* in a ValueError (index >= size, leaf hash of the wrong length, size2 <  *)
(* size1, a proof where none is expected, no proof where one is required,  *)
(* a proof of the wrong length, or hex text that does not decode),         *)
(* hash_children has not been called and no hash has been derived.         *)
(***************************************************************************)
C8_NoHashingBeforeShapeError ==
    (Done /\ IsValueError)
        => /\ hashCalls = 0
           /\ loc.acc = <<>> /\ loc.calc_root = <<>>
           /\ loc.hash1 = <<>> /\ loc.hash2 = <<>>

\* a leaf hash of the wrong length next to a proof that could have been chained
C8_Witness ==
    /\ fn = "verify_inclusion"
    /\ args.index = 2 /\ args.size = 5
    /\ Len(args.proof) = 3
    /\ Done
    /\ outcome = RaiseValueError("leaf_hash has unexpected size")
    /\ hashCalls = 0

(***************************************************************************)
(* C9.  As claimed: for every pair (index, size) that does not satisfy     *)
(* 0 <= index < size (index >= size, size = 0, negative index),            *)
(* verify_inclusion ends in a shape error and derives no root.             *)
(***************************************************************************)
C9_InvalidCoordinateIsRejected ==
    (/\ fn = "verify_inclusion"
     /\ ~(0 <= args.index /\ args.index < args.size)
     /\ Done)
        => /\ IsValueError
           /\ loc.calc_root = <<>>
           /\ hashCalls = 0

(***************************************************************************)
(* C10.  For every 0 <= index < size, with                                 *)
(* inner = bitLength(index XOR (size - 1)) and                             *)
(* border = popcount(index >> inner), root_from_inclusion_proof goes on    *)
(* to chain only a proof of exactly inner + border hashes; a proof of any  *)
(* other length yields a ValueError, which is "wrong proof size" when the  *)
(* leaf hash has the digest length; the inner chain consumes the first     *)
(* inner hashes and the border chain the remaining border hashes.          *)
(***************************************************************************)
\* bit k of the natural number n
BitOf(n, k) == (n \div Pow2(k)) % 2

\* the number of bits of the natural number n
BitLengthOf(n) == CHOOSE k \in 0..(n + 1) : Pow2(k) > n /\ (k > 0 => Pow2(k - 1) <= n)

\* the exclusive or of the natural numbers a and b, bit by bit below bit k
RECURSIVE XorBelow(_, _, _)
XorBelow(a, b, k) ==
    IF k = 0 THEN 0
    ELSE XorBelow(a, b, k - 1)
           + (IF BitOf(a, k - 1) # BitOf(b, k - 1) THEN Pow2(k - 1) ELSE 0)

XorOf(a, b) == XorBelow(a, b, BitLengthOf(a) + BitLengthOf(b))

PopCountOf(n) == Cardinality({k \in 0..n : BitOf(n, k) = 1})

InnerOf(index, size) == BitLengthOf(XorOf(index, size - 1))

BorderOf(index, size) == PopCountOf(index \div Pow2(InnerOf(index, size)))

\* C10: only a proof of inner + border hashes is chained, any other length is
\* a ValueError, and the two chains split the proof at position inner
C10_ProofLengthIsInnerPlusBorder ==
    (/\ fn = "verify_inclusion"
     /\ 0 <= args.index /\ args.index < args.size
     /\ pc \notin {"idle", "vi_decode"}
     /\ outcome # RaiseValueError("fromhex"))
        => LET inner == InnerOf(args.index, args.size)
               border == BorderOf(args.index, args.size)
               accepted == pc \in {"rfip_inner", "rfip_border", "vi_match"}
                             \/ (Done /\ ~IsValueError)
           IN  /\ accepted => Len(loc.proof) = inner + border
               /\ (Done /\ Len(loc.proof) # inner + border) =>
                      /\ IsValueError
                      /\ ByteLen(loc.leaf) = hasher_size =>
                             outcome = RaiseValueError("wrong proof size")
               /\ (Done /\ Len(loc.proof) = inner + border
                        /\ ByteLen(loc.leaf) = hasher_size) => ~IsValueError
               /\ (pc = "rfip_border" /\ loc.i = 0) =>
                      /\ hashCalls = inner
                      /\ loc.acc = chain_inner(loc.leaf, SubSeq(loc.proof, 1, inner),
                                               args.index)
               /\ pc = "vi_match" =>
                      /\ hashCalls = inner + border
                      /\ loc.calc_root =
                             chain_border_right(
                                 chain_inner(loc.leaf, SubSeq(loc.proof, 1, inner),
                                             args.index),
                                 SubSeq(loc.proof, inner + 1, inner + border))

\* one hash too many for leaf 4 of 6, which needs 1 inner and 1 border hash
C10_Witness ==
    /\ fn = "verify_inclusion"
    /\ args.index = 4 /\ args.size = 6
    /\ Len(args.proof) = 3
    /\ ByteLen(loc.leaf) = hasher_size
    /\ Done
    /\ outcome = RaiseValueError("wrong proof size")

(***************************************************************************)
(* C14.  For 0 < size1 < size2 in verify_consistency, with shift the       *)
(* number of trailing zero bits of size1: when size1 = 2^shift the seed    *)
(* is root1 and every proof hash is chained (start = 0), otherwise the     *)
(* seed is proof[0] and chaining starts at proof[1] (start = 1); the       *)
(* proof is chained only if its length is start + (inner - shift) +        *)
(* border with (inner, border) the decomposition of (size1 - 1, size2),    *)
(* and any other length is a ValueError; hash1 chains the inner steps      *)
(* whose bit of mask = (size1 - 1) >> shift is 1, hash2 chains every       *)
(* inner step, and both then chain the same border hashes.                 *)
(***************************************************************************)
\* the number of trailing zero bits of n > 0
TrailingZerosOf(n) ==
    CHOOSE k \in 0..n : n % Pow2(k) = 0 /\ n % Pow2(k + 1) # 0

\* the first k hashes of hs chained onto seed, steered by the bits of mask:
\* a 1 bit puts the hash on the left, a 0 bit puts it on the right or, when
\* onlyOnes, skips it
RECURSIVE FoldInner(_, _, _, _, _)
FoldInner(seed, hs, mask, k, onlyOnes) ==
    IF k = 0 THEN seed
    ELSE LET prev == FoldInner(seed, hs, mask, k - 1, onlyOnes)
         IN  IF BitOf(mask, k - 1) = 1 THEN RefNode(hs[k], prev)
             ELSE IF onlyOnes THEN prev
             ELSE RefNode(prev, hs[k])

\* the hashes hs[from .. to] chained onto seed, each on the left
RECURSIVE FoldBorder(_, _, _, _)
FoldBorder(seed, hs, from, to) ==
    IF to < from THEN seed
    ELSE RefNode(hs[to], FoldBorder(seed, hs, from, to - 1))

\* C14: seed, start, accepted length and the two chains of verify_consistency
C14_SeedStartLengthAndChains ==
    (/\ fn = "verify_consistency"
     /\ 0 < args.size1 /\ args.size1 < args.size2
     /\ pc \notin {"idle", "vc_roots", "vc_proof", "vc_edge"}
     /\ outcome \notin {RaiseValueError("fromhex"),
                        RaiseValueError("empty bytearray_proof")}
     /\ ~roots_invalid(args.root1, args.root2))
        => LET proof == [k \in 1..Len(args.proof) |-> FromHex(args.proof[k])]
               shift == TrailingZerosOf(args.size1)
               power == args.size1 = Pow2(shift)
               start == IF power THEN 0 ELSE 1
               seed == IF power THEN FromHex(args.root1) ELSE proof[1]
               inner == InnerOf(args.size1 - 1, args.size2) - shift
               border == BorderOf(args.size1 - 1, args.size2)
               mask == (args.size1 - 1) \div Pow2(shift)
               want == start + inner + border
               rest == SubSeq(proof, start + 1, Len(proof))
               ones == Cardinality({k \in 0..(inner - 1) : BitOf(mask, k) = 1})
               h1 == FoldBorder(FoldInner(seed, rest, mask, inner, TRUE),
                                rest, inner + 1, inner + border)
               h2 == FoldBorder(FoldInner(seed, rest, mask, inner, FALSE),
                                rest, inner + 1, inner + border)
           IN  IF Len(proof) # want
               THEN /\ pc \in {"vc_decomp", "done"}
                    /\ hashCalls = 0
                    /\ Done => outcome = RaiseValueError("wrong bytearray_proof size")
               ELSE /\ pc # "vc_decomp" =>
                          /\ ~IsValueError
                          /\ loc.seed = seed /\ loc.start = start
                          /\ loc.shift = shift /\ loc.mask = mask
                          /\ loc.inner = inner /\ loc.border = border
                          /\ loc.proof = rest
                    /\ pc = "vc_match1" =>
                          loc.hash1 = h1 /\ hashCalls = ones + border
                    /\ pc = "vc_match2" =>
                          /\ loc.hash1 = h1 /\ loc.hash2 = h2
                          /\ hashCalls = ones + border + inner + border

\* size1 = 6 is no power of two: the seed is proof[0] and shift is 1
C14_Witness ==
    /\ fn = "verify_consistency"
    /\ args.size1 = 6 /\ args.size2 = 13
    /\ loc.start = 1 /\ loc.shift = 1
    /\ Len(args.proof) = 1 + loc.inner + loc.border
    /\ Done /\ stdout = <<"Consistency verification successful">>

(***************************************************************************)
(* C16.  For all 0 < size1 < size2 the reduced inner count of              *)
(* verify_consistency, bitLength((size1 - 1) XOR (size2 - 1)) minus the    *)
(* trailing zeros of size1, is at least 1; so the proof length required,   *)
(* start + inner + border, is at least 1, and the slices proof[:inner]     *)
(* and proof[inner:] are taken at a bound that is not negative.            *)
(***************************************************************************)
C16_ReducedInnerIsPositive ==
    (/\ fn = "verify_consistency"
     /\ 0 < args.size1 /\ args.size1 < args.size2)
        => /\ consistency_inner(args.size1, args.size2)
                = BitLengthOf(XorOf(args.size1 - 1, args.size2 - 1))
                    - TrailingZerosOf(args.size1)
           /\ consistency_inner(args.size1, args.size2) >= 1
           /\ consistency_start(args.size1)
                + consistency_inner(args.size1, args.size2)
                + consistency_border(args.size1, args.size2) >= 1
           /\ pc \in {"vc_inner_right", "vc_border1", "vc_match1",
                      "vc_inner", "vc_border2", "vc_match2"} =>
                  /\ loc.inner >= 1
                  /\ loc.inner <= Len(loc.proof)
                  /\ Len(SliceTo(loc.proof, loc.inner)) = loc.inner
                  /\ Len(SliceFrom(loc.proof, loc.inner)) = loc.border

\* the tight case: between sizes 8 and 9 exactly one inner step is left
C16_Witness ==
    /\ fn = "verify_consistency"
    /\ args.size1 = 8 /\ args.size2 = 9
    /\ pc = "vc_inner_right"
    /\ loc.shift = 3 /\ loc.inner = 1

(***************************************************************************)
(* Properties of inclusion() and consistency() of src/main.py, checked     *)
(* under SpecMain.                                                         *)
(***************************************************************************)
MainEnded == main.pc = "end"

\* verify_inclusion has been called by inclusion()
InclusionEngineCalled == main.fn = "inclusion" /\ main.pc \in {"inc_wait", "end"} /\ pc # "idle"

\* the inclusion proof of the fetched entry, without its leafHash field
ServedProofSansLeafHash ==
    LET ip == main.entry[1].verification.inclusionProof
    IN  [logIndex |-> ip.logIndex, treeSize |-> ip.treeSize,
         hashes |-> ip.hashes, rootHash |-> ip.rootHash]

\* the fetched entry is a true entry of the log but for its leafHash field
ServedEntryIsTrueButLeafHash ==
    LET ip == ServedProofSansLeafHash
    IN  /\ ip.treeSize \in 1..MaxLogSize
        /\ ip.logIndex \in 0..(ip.treeSize - 1)
        /\ main.entry[1].body = B64Encode(Entry(ip.logIndex))
        /\ ip.hashes = HexList(RefPath(ip.logIndex, 0, ip.treeSize))
        /\ ip.rootHash = Hexlify(MTH(0, ip.treeSize))

\* C11: in inclusion(), the leaf hash handed to verify_inclusion is
\* compute_leaf_hash of the fetched entry body and the other arguments are
\* the fetched logIndex, treeSize, hashes and rootHash: no argument reads the
\* server-supplied leafHash, so the run of the engine, and with it the
\* outcome of the flow, is the same whatever that field holds; in particular
\* a true entry verifies whether its leafHash field is true or made up.
C11_LeafHashIsComputedFromBody ==
    InclusionEngineCalled =>
        /\ args.leaf_hash = compute_leaf_hash(main.entry[1].body)
        /\ args = [index |-> ServedProofSansLeafHash.logIndex,
                   size |-> ServedProofSansLeafHash.treeSize,
                   leaf_hash |-> Hexlify(hash_leaf(B64Decode(main.entry[1].body))),
                   proof |-> ServedProofSansLeafHash.hashes,
                   root |-> ServedProofSansLeafHash.rootHash]
        /\ (MainEnded /\ ServedEntryIsTrueButLeafHash =>
               /\ main.outcome = MainReturn("None")
               /\ stdout[Len(stdout)] =
                    "Offline root hash calculation for inclusion verified")

\* a true entry served with a made-up leafHash has been verified
C11_Witness ==
    /\ InclusionEngineCalled
    /\ MainEnded
    /\ ServedEntryIsTrueButLeafHash
    /\ main.entry[1].verification.inclusionProof.leafHash = Hexlify(JunkA)
    /\ args.leaf_hash # Hexlify(JunkA)
    /\ main.outcome = MainReturn("None")

\* C12: sane_path raises FileNotFoundError exactly when the path does not
\* exist; in inclusion() it runs first, so for a missing artifact the flow
\* ends with FileNotFoundError before any request is sent, any signature is
\* checked or verify_inclusion is called, and for an existing artifact the
\* flow never ends with FileNotFoundError.
C12_MissingArtifactStopsInclusion ==
    main.fn = "inclusion" /\ main.pc # "inc_sane_path" =>
        IF main.artifact \in ExistingFiles
        THEN main.outcome.exc # "FileNotFoundError"
        ELSE /\ MainEnded
             /\ main.outcome = MainRaise("FileNotFoundError")
             /\ main.requests = <<>>
             /\ main.log = <<>>
             /\ main.signature = <<>>
             /\ main.entry = <<>>
             /\ pc = "idle"
             /\ fn = "none"
             /\ hashCalls = 0
             /\ stdout = <<>>

\* inclusion() has ended on a path that does not exist
C12_Witness ==
    /\ main.fn = "inclusion"
    /\ main.artifact = "/non/existent/file.txt"
    /\ MainEnded
    /\ main.outcome = MainRaise("FileNotFoundError")
    /\ main.requests = <<>>

\* C13: consistency(prev_checkpoint) returns True only when
\* verify_consistency verified the proof between the previous and the latest
\* checkpoint: whenever it did not succeed (malformed root hex, shape error,
\* root mismatch, timeout, empty checkpoint) the result is not True.
C13_TrueOnlyAfterVerification ==
    main.fn = "consistency" /\ MainEnded /\ main.outcome = MainReturn("True") =>
        /\ pc = "done"
        /\ ConsistencySucceeded

\* C15: in inclusion(), the entry whose signature and certificate are used
\* for the artifact signature check is the entry whose body is leaf-hashed
\* and whose inclusion proof is verified.
C15_SignedEntryIsProvedEntry ==
    main.fn = "inclusion" /\ main.signature # <<>> /\ main.entry # <<>> =>
        /\ json_loads(B64Decode(main.entry[1].body)) = main.log[1]
        /\ main.signature[1].signature =
             SignatureOfEntry(main.entry[1].verification.inclusionProof.logIndex)

====
